---- MODULE Spec2Model ----
(***************************************************************************)
(* Model of js/speedtest.js (the canonical variant, lines 1-318): the      *)
(* latency probe testPing, the throughput probe testDownload, the          *)
(* orchestrator runSpeedTest and the page's event handlers (start click,   *)
(* offline event, the 300 ms timer of showResults).                        *)
(*                                                                         *)
(* JavaScript runs one task at a time and drains the microtask queue       *)
(* before the next task, so one action is one task together with every     *)
(* promise continuation it unblocks: a click, the settling of one network  *)
(* request, a timer, an offline event.  The clock performance.now() is an  *)
(* integer number of milliseconds advanced by the environment (Tick).      *)
(*                                                                         *)
(* The model follows one invocation of runSpeedTest at a time: a new run   *)
(* is followed once the previous one has returned.  The text written to    *)
(* the ping and download elements is not part of the state.                *)
(*                                                                         *)
(* Units: sizes are in MiB (1024*1024 bytes), so that                      *)
(*   speedMbps = (bytes*8 / seconds) / (1024*1024) = MiB*8*1000 / ms.      *)
(* Progress percentages are in tenths of a percent (12.5% = 125).          *)
(***************************************************************************)
EXTENDS Naturals, Integers, Sequences, FiniteSets, TLC

\* ------------------------------------------------------------------ bounds
\* Largest value of the millisecond clock.
MaxNow == 2
\* A run is started only while fewer than MaxTimers showResults timers are pending.
MaxTimers == 2

\* -------------------------------------------------------- program constants
NUM_DOWNLOAD_STREAMS == 4
PING_ATTEMPTS == 3
\* CONFIG.UPLOAD_SIZE of the file's second variant, in KiB.
UPLOAD_SIZE == 64
\* testUpload's uploadEndpoints, in the order tried.
uploadEndpoints == << "httpbin.org", "postman-echo.com" >>

\* CONFIG.DOWNLOAD_TESTS: the candidates in configured order, sizes in MiB.
DOWNLOAD_TESTS == << [url |-> "speed.cloudflare.com", size |-> 50],
                     [url |-> "proof.ovh.net", size |-> 100] >>

Candidates == 1..Len(DOWNLOAD_TESTS)
Streams == 0..(NUM_DOWNLOAD_STREAMS - 1)

\* ------------------------------------------------------------------ values
\* JavaScript values the probes return: null, a finite number num/den,
\* Infinity (a positive number divided by zero) or NaN (0/0).
Null == [tag |-> "null"]
Infinity == [tag |-> "inf"]
NaN == [tag |-> "nan"]
Num(n, d) == [tag |-> "num", num |-> n, den |-> d]

\* a / b in IEEE arithmetic for a >= 0, b >= 0.
Div(a, b) == IF b = 0 THEN (IF a = 0 THEN NaN ELSE Infinity) ELSE Num(a, b)

RECURSIVE SumSeq(_)
SumSeq(s) == IF s = <<>> THEN 0 ELSE Head(s) + SumSeq(Tail(s))

VARIABLES
    now,          \* performance.now(), in ms
    elements,     \* the DOM elements the handlers write
    timers,       \* pending setTimeout callbacks of showResults
    pc,           \* where runSpeedTest is: idle, ping, download, completed, failed
    results,      \* the results record of runSpeedTest
    pingI,        \* testPing's loop index i
    pingStart,    \* testPing's start of the attempt in flight
    pings,        \* testPing's pings array
    cand,         \* index in DOWNLOAD_TESTS of the candidate being tried
    dlStart,      \* testDownload's start
    stream,       \* state of each download promise of the candidate
    completedStreams, \* testDownload's completedStreams
    emitted,      \* history: the values the run passed to updateProgress, in order
    requests,     \* history: requests the run issued, per probe and candidate
    pingOk,       \* history: number and summed elapsed time of the latency
                  \* attempts whose fetch resolved
    attempts,     \* history: testDownload's locals each time allSettled resolved
    variant,      \* which of the file's two variants of the script the page runs
    upload        \* testUpload's endpoint in flight and its start (second variant)

vars == << now, elements, timers, pc, results, pingI, pingStart, pings, cand,
           dlStart, stream, completedStreams, emitted, requests, pingOk, attempts,
           variant, upload >>

runVars == << pc, results, pingI, pingStart, pings, cand, dlStart,
              stream, completedStreams, emitted, requests, pingOk, attempts,
              variant, upload >>

\* ------------------------------------------------------------ UI helpers
updateProgress(el, percentage) == [el EXCEPT !.progress = percentage]

updateStatus(el, message) == [el EXCEPT !.status = message]

showLoading_keepError(el) ==
    updateProgress([el EXCEPT !.results = "none",
                              !.infoSection = "none", !.loading = "block",
                              !.startButtonDisabled = TRUE], 0)

showLoading(el) ==
    updateProgress([el EXCEPT !.results = "none", !.error = "none",
                              !.infoSection = "none", !.loading = "block",
                              !.startButtonDisabled = TRUE], 0)

\* showLoading of the second variant, which has no info section.
showLoadingUpload(el) ==
    updateProgress([el EXCEPT !.results = "none", !.error = "none",
                              !.loading = "block",
                              !.startButtonDisabled = TRUE], 0)

hideLoading_keepDisabled(el) == [el EXCEPT !.loading = "none"]

hideLoading(el) == [el EXCEPT !.loading = "none", !.startButtonDisabled = FALSE]

\* showError: hideLoading, then the message and the error display.
showError(el, message) ==
    [hideLoading(el) EXCEPT !.errorText = message, !.error = "block"]

\* The callback of showResults' setTimeout.
showResultsTimer(el) == [hideLoading(el) EXCEPT !.results = "block"]

\* ------------------------------------------------------------ testPing
\* The value testPing returns from its pings array.
PingResult_perAttempt(ps) ==
    IF Len(ps) = 0 THEN Null ELSE Div(SumSeq(ps), PING_ATTEMPTS)

PingResult(ps) == IF Len(ps) = 0 THEN Null ELSE Div(SumSeq(ps), Len(ps))

\* testPing's loop condition `i < attempts`.
MoreAttempts(i) == i < PING_ATTEMPTS

\* ------------------------------------------------------------ testDownload
\* `const start = performance.now()` of the loop body, for candidate c.
AttemptStart_hoisted(c) == IF c = 1 THEN now ELSE dlStart

AttemptStart(c) == now

\* `completedStreams++`.
Increment_stale(n) == IF n = 1 THEN 1 ELSE n + 1

Increment(n) == n + 1

Fulfilled(st) == {i \in Streams : st[i] = "fulfilled"}

\* Promise.allSettled(downloadPromises) resolves once every promise has settled.
AllSettled_race(st) == \E i \in Streams : st[i] \in {"fulfilled", "rejected"}

AllSettled(st) == \A i \in Streams : st[i] \in {"fulfilled", "rejected"}

\* successStreams and totalReceivedBytes of the loop over the settled results.
SuccessStreams(st) == Cardinality(Fulfilled(st))

TotalReceivedBytes_allStreams(st, c) == NUM_DOWNLOAD_STREAMS * DOWNLOAD_TESTS[c].size

TotalReceivedBytes(st, c) == SuccessStreams(st) * DOWNLOAD_TESTS[c].size

\* `if (successStreams === 0) throw`: the attempt failed as a whole.
AllStreamsFailed_anyFailed(st) == SuccessStreams(st) < NUM_DOWNLOAD_STREAMS

AllStreamsFailed(st) == SuccessStreams(st) = 0

\* speedMbps for totalReceivedBytes (MiB) and the elapsed milliseconds.
SpeedMbps(bytes, ms) == Div(bytes * 8 * 1000, ms)

\* The candidate the for-of loop takes after candidate c.
NextCandidate_retry(c) == c

NextCandidate(c) == c + 1

\* progressCallback((completedStreams / NUM_DOWNLOAD_STREAMS) * 100) and
\* runSpeedTest's callback updateProgress(20 + progress * 0.5).
StreamProgress(completed) == (completed * 1000) \div NUM_DOWNLOAD_STREAMS

DownloadProgress_noOffset(p) == p \div 2

DownloadProgress(p) == 200 + (p \div 2)

\* runSpeedTest's `if (results.download === null) throw`.
RunFailed_never(res) == FALSE

RunFailed_anyMissing(res) == res.download = Null \/ res.ping = Null

RunFailed(res) == res.download = Null

NoStreams == [i \in Streams |-> "none"]
Launched == [i \in Streams |-> "fetch"]
NoRequests == [ping |-> 0, download |-> [c \in Candidates |-> 0], upload |-> 0]
NoUpload == [endpoint |-> 0, start |-> 0]
NoResults == [ping |-> Null, download |-> Null, upload |-> Null]

\* ------------------------------------------------------------------ Init
InitPage ==
    /\ now = 0
    /\ elements = [startButtonDisabled |-> FALSE, loading |-> "none",
                   results |-> "none", error |-> "none", infoSection |-> "none",
                   progress |-> 0, status |-> "", errorText |-> "",
                   serverInfo |-> "Not yet tested"]
    /\ timers = 0
    /\ pc = "idle"
    /\ results = NoResults
    /\ pingI = 0
    /\ pingStart = 0
    /\ pings = <<>>
    /\ cand = 0
    /\ dlStart = 0
    /\ stream = NoStreams
    /\ completedStreams = 0
    /\ emitted = <<>>
    /\ requests = NoRequests
    /\ pingOk = [count |-> 0, sum |-> 0]
    /\ attempts = <<>>
    /\ upload = NoUpload

\* The page with the first variant of the script (lines 1-318).
Init == InitPage /\ variant = 1

\* The page with the second variant of the script (lines 319-618).
InitUpload == InitPage /\ variant = 2

\* The environment's clock.
Tick ==
    /\ now < MaxNow
    /\ now' = now + 1
    /\ UNCHANGED << elements, timers >>
    /\ UNCHANGED runVars

\* Click on the enabled start button: runSpeedTest up to testPing's first await.
StartRun_noAwait ==
    /\ ~elements.startButtonDisabled
    /\ pc \in {"idle", "completed", "failed"}
    /\ timers < MaxTimers
    /\ elements' = updateProgress(updateStatus(
                        IF variant = 1 THEN showLoading(elements)
                                       ELSE showLoadingUpload(elements),
                        "Testing latency..."), 100)
    /\ results' = NoResults
    /\ pc' = "ping"
    /\ pingI' = 0
    /\ pings' = <<>>
    /\ pingStart' = now
    /\ cand' = 1
    /\ dlStart' = now
    /\ stream' = Launched
    /\ completedStreams' = 0
    /\ emitted' = <<0, 100>>
    /\ requests' = [ping |-> 1,
                    download |-> [c \in Candidates |->
                                     IF c = 1 THEN NUM_DOWNLOAD_STREAMS ELSE 0],
                    upload |-> 0]
    /\ pingOk' = [count |-> 0, sum |-> 0]
    /\ attempts' = <<>>
    /\ upload' = NoUpload
    /\ UNCHANGED << now, timers, variant >>

StartRun ==
    /\ ~elements.startButtonDisabled
    /\ pc \in {"idle", "completed", "failed"}
    /\ timers < MaxTimers
    /\ elements' = updateProgress(updateStatus(
                        IF variant = 1 THEN showLoading(elements)
                                       ELSE showLoadingUpload(elements),
                        "Testing latency..."), 100)
    /\ results' = NoResults
    /\ pc' = "ping"
    /\ pingI' = 0
    /\ pings' = <<>>
    /\ pingStart' = now
    /\ cand' = 0
    /\ dlStart' = 0
    /\ stream' = NoStreams
    /\ completedStreams' = 0
    /\ emitted' = <<0, 100>>
    /\ requests' = [NoRequests EXCEPT !.ping = 1]
    /\ pingOk' = [count |-> 0, sum |-> 0]
    /\ attempts' = <<>>
    /\ upload' = NoUpload
    /\ UNCHANGED << now, timers, variant >>

\* testDownload's loop body up to `await Promise.allSettled`, for candidate c:
\* start is read and NUM_DOWNLOAD_STREAMS fetches are issued.
LaunchCandidate(c) ==
    /\ cand' = c
    /\ dlStart' = AttemptStart(c)
    /\ stream' = Launched
    /\ completedStreams' = 0
    /\ requests' = [requests EXCEPT !.download[c] = @ + NUM_DOWNLOAD_STREAMS]

\* testPing returns from its pings array ps and runSpeedTest goes on: the
\* result is recorded whatever it is, the status and progress are updated
\* and testDownload starts on its first candidate.
FinishPing(ps) ==
    /\ results' = [results EXCEPT !.ping = PingResult(ps)]
    /\ elements' = LET el == updateProgress(updateStatus(elements, "Testing download speed..."), 200)
                   IN IF variant = 1
                      THEN [el EXCEPT !.serverInfo = DOWNLOAD_TESTS[1].url]
                      ELSE el
    /\ emitted' = Append(emitted, 200)
    /\ pc' = "download"
    /\ LaunchCandidate(1)
    /\ UNCHANGED pingStart

\* The rest of a latency attempt once its fetch has settled, ps being the
\* pings array after it: the next attempt, or testPing returns and
\* runSpeedTest goes on to testDownload's first candidate.
PingContinue(ps) ==
    /\ pings' = ps
    /\ pingI' = pingI + 1
    /\ IF MoreAttempts(pingI + 1)
       THEN /\ pingStart' = now
            /\ requests' = [requests EXCEPT !.ping = @ + 1]
            /\ UNCHANGED << elements, pc, results, cand, dlStart, stream,
                            completedStreams, emitted >>
       ELSE FinishPing(ps)
    /\ UNCHANGED << now, timers, attempts, variant, upload >>

\* The latency fetch resolves with a response (fetch resolves whatever the
\* response's status is, ok or not): the elapsed time is pushed.
PingResponse(ok) ==
    /\ pc = "ping"
    /\ pingOk' = [count |-> pingOk.count + 1, sum |-> pingOk.sum + (now - pingStart)]
    /\ PingContinue(Append(pings, now - pingStart))

\* The latency fetch rejects: the catch block logs and the loop goes on.
PingError_abort ==
    /\ pc = "ping"
    /\ pings' = pings
    /\ pingI' = pingI + 1
    /\ FinishPing(pings)
    /\ UNCHANGED << now, timers, attempts, variant, upload, pingOk >>

PingError ==
    /\ pc = "ping"
    /\ UNCHANGED pingOk
    /\ PingContinue(pings)

\* testDownload's locals at the moment Promise.allSettled has resolved and the
\* loop over its results has run.
Snapshot(st, comp) ==
    [cand |-> cand, outcome |-> st, completedStreams |-> comp,
     totalReceivedBytes |-> TotalReceivedBytes(st, cand),
     start |-> dlStart, end |-> now]

\* testUpload's loop body up to `await fetch`, for endpoint e.
StartEndpoint(e) ==
    /\ upload' = [endpoint |-> e, start |-> now]
    /\ requests' = [requests EXCEPT !.upload = @ + 1]

\* runSpeedTest after testDownload has returned ret, el and em being the DOM
\* and the emitted progress so far: the throw and showError of the catch
\* block, or updateProgress(100) and showResults (which sets its timer).
AfterDownload(ret, el, em) ==
    /\ results' = [results EXCEPT !.download = ret]
    /\ IF RunFailed(results')
       THEN /\ pc' = "failed"
            /\ elements' = showError(el, "Download test failed")
            /\ emitted' = em
            /\ UNCHANGED << timers, requests, upload >>
       ELSE IF variant = 1
            THEN /\ pc' = "completed"
                 /\ elements' = updateProgress(el, 1000)
                 /\ emitted' = Append(em, 1000)
                 /\ timers' = timers + 1
                 /\ UNCHANGED << requests, upload >>
            ELSE /\ pc' = "upload"
                 /\ elements' = updateProgress(updateStatus(el, "Testing upload speed..."), 700)
                 /\ emitted' = Append(em, 700)
                 /\ StartEndpoint(1)
                 /\ UNCHANGED timers

\* What follows a stream's promise settling, st, comp, el and em being the
\* promises, completedStreams, the DOM and the emitted progress after it.
\* While allSettled is pending testDownload stays suspended; once it resolves
\* testDownload aggregates and either fails over to the next candidate,
\* returns null, or returns the speed.
AfterSettle(st, comp, el, em) ==
    /\ IF ~AllSettled(st)
       THEN /\ stream' = st
            /\ completedStreams' = comp
            /\ elements' = el
            /\ emitted' = em
            /\ UNCHANGED << pc, results, cand, dlStart, timers, requests, attempts,
                            upload >>
       ELSE /\ attempts' = Append(attempts, Snapshot(st, comp))
            /\ IF AllStreamsFailed(st)
               THEN IF NextCandidate(cand) \in Candidates
                    THEN /\ LaunchCandidate(NextCandidate(cand))
                         /\ elements' = el
                         /\ emitted' = em
                         /\ UNCHANGED << pc, results, timers, upload >>
                    ELSE /\ stream' = st
                         /\ completedStreams' = comp
                         /\ AfterDownload(Null, el, em)
                         /\ UNCHANGED << cand, dlStart >>
               ELSE /\ stream' = st
                    /\ completedStreams' = comp
                    /\ AfterDownload(SpeedMbps(TotalReceivedBytes(st, cand), now - dlStart),
                                     el, em)
                    /\ UNCHANGED << cand, dlStart >>
    /\ UNCHANGED << now, pingI, pingStart, pings, pingOk, variant >>

\* A stream's promise rejects: nothing else of the stream's body runs.
StreamRejects(i) ==
    AfterSettle([stream EXCEPT ![i] = "rejected"], completedStreams, elements, emitted)

\* Stream i's fetch rejects (transport error).
StreamFetchError(i) ==
    /\ pc = "download"
    /\ stream[i] = "fetch"
    /\ StreamRejects(i)

\* Stream i's fetch resolves with a response whose ok is false: the stream throws.
StreamBadStatus_unchecked(i) ==
    /\ pc = "download"
    /\ stream[i] = "fetch"
    /\ stream' = [stream EXCEPT ![i] = "body"]
    /\ UNCHANGED << now, elements, timers, pc, results, pingI, pingStart, pings,
                    cand, dlStart, completedStreams, emitted, requests, pingOk,
                    attempts, variant, upload >>

StreamBadStatus(i) ==
    /\ pc = "download"
    /\ stream[i] = "fetch"
    /\ StreamRejects(i)

\* Stream i's fetch resolves with an ok response: the stream awaits arrayBuffer().
StreamResponseOk(i) ==
    /\ pc = "download"
    /\ stream[i] = "fetch"
    /\ stream' = [stream EXCEPT ![i] = "body"]
    /\ UNCHANGED << now, elements, timers, pc, results, pingI, pingStart, pings,
                    cand, dlStart, completedStreams, emitted, requests, pingOk,
                    attempts, variant, upload >>

\* Stream i's arrayBuffer() rejects (the transfer breaks off).
StreamBodyError(i) ==
    /\ pc = "download"
    /\ stream[i] = "body"
    /\ StreamRejects(i)

\* Stream i's arrayBuffer() resolves: completedStreams++, the progress
\* callback, and the promise fulfils with test.size.
StreamBodyDone(i) ==
    /\ pc = "download"
    /\ stream[i] = "body"
    /\ LET comp == Increment(completedStreams)
           p == DownloadProgress(StreamProgress(comp))
       IN AfterSettle([stream EXCEPT ![i] = "fulfilled"], comp,
                      updateProgress(elements, p), Append(emitted, p))

\* The 300 ms timer of showResults fires.
TimerFire ==
    /\ timers > 0
    /\ timers' = timers - 1
    /\ elements' = showResultsTimer(elements)
    /\ UNCHANGED now
    /\ UNCHANGED runVars

\* The window's offline event.
Offline ==
    /\ elements' = showError(elements, "No internet connection detected")
    /\ UNCHANGED << now, timers >>
    /\ UNCHANGED runVars

Next ==
    \/ Tick
    \/ StartRun
    \/ PingResponse(TRUE)
    \/ PingResponse(FALSE)
    \/ PingError
    \/ \E i \in Streams : StreamFetchError(i)
    \/ \E i \in Streams : StreamBadStatus(i)
    \/ \E i \in Streams : StreamResponseOk(i)
    \/ \E i \in Streams : StreamBodyError(i)
    \/ \E i \in Streams : StreamBodyDone(i)
    \/ TimerFire
    \/ Offline

Spec == Init /\ [][Next]_vars

\* Every request issued eventually settles and every timer set eventually
\* fires: the latency fetch in flight, each stream's fetch, each stream's
\* arrayBuffer(), and the timer of showResults.
Fairness ==
    /\ WF_vars(PingResponse(TRUE) \/ PingResponse(FALSE) \/ PingError)
    /\ \A i \in Streams :
           WF_vars(StreamFetchError(i) \/ StreamBadStatus(i) \/ StreamResponseOk(i))
    /\ \A i \in Streams : WF_vars(StreamBodyError(i) \/ StreamBodyDone(i))
    /\ WF_vars(TimerFire)

\* The page of Spec in an environment that answers every request.
FairSpec == Init /\ [][Next]_vars /\ Fairness

\* ------------------------------------------- the second variant's upload
\* testUpload's speedMbps for UPLOAD_SIZE KiB sent in ms milliseconds.
UploadSpeedMbps(ms) == Div(UPLOAD_SIZE * 8 * 1000, 1024 * ms)

\* runSpeedTest's callback to testUpload, in tenths of a percent: 70 + p * 0.3.
UploadProgress(p) == 700 + ((p * 3) \div 10)

\* runSpeedTest of the second variant after testUpload has returned ret:
\* the result is recorded whatever it is, updateProgress(100) and showResults.
AfterUpload(ret, el, em) ==
    /\ results' = [results EXCEPT !.upload = ret]
    /\ pc' = "completed"
    /\ elements' = updateProgress(el, 1000)
    /\ emitted' = Append(em, 1000)
    /\ timers' = timers + 1
    /\ UNCHANGED << upload, requests >>

\* testUpload's `continue`: the next endpoint, or null once none is left.
UploadContinue ==
    IF upload.endpoint < Len(uploadEndpoints)
    THEN /\ StartEndpoint(upload.endpoint + 1)
         /\ UNCHANGED << elements, timers, pc, results, emitted >>
    ELSE AfterUpload(Null, elements, emitted)

\* The upload fetch resolves: with an ok response the speed is computed, the
\* callback is called with 100 and the speed returned; otherwise `continue`.
UploadResponse(ok) ==
    /\ pc = "upload"
    /\ IF ok
       THEN LET p == UploadProgress(1000)
            IN AfterUpload(UploadSpeedMbps(now - upload.start),
                           updateProgress(elements, p), Append(emitted, p))
       ELSE UploadContinue
    /\ UNCHANGED << now, pingI, pingStart, pings, cand, dlStart, stream,
                    completedStreams, pingOk, attempts, variant >>

\* The upload fetch rejects: the catch block logs and the loop goes on.
UploadError ==
    /\ pc = "upload"
    /\ UploadContinue
    /\ UNCHANGED << now, pingI, pingStart, pings, cand, dlStart, stream,
                    completedStreams, pingOk, attempts, variant >>

NextUpload ==
    \/ Next
    \/ UploadResponse(TRUE)
    \/ UploadResponse(FALSE)
    \/ UploadError

\* The page running the second variant of the script.
SpecUpload == InitUpload /\ [][NextUpload]_vars

\* ------------------------------------------------------------- properties
\* What the properties read from a settled attempt a (an element of attempts),
\* defined on the recorded promise states alone.
Succeeded(a) == {i \in Streams : a.outcome[i] = "fulfilled"}
Failed(a) == {i \in Streams : a.outcome[i] = "rejected"}
LastAttempt == attempts[Len(attempts)]
Emitted(v) == \E j \in 1..Len(emitted) : emitted[j] = v

\* C1: an attempt is judged successful (testDownload returns a value from it
\* and the run completes) iff at least one of its streams succeeded; an attempt
\* whose streams all failed returns no value, and unless it was the last
\* candidate the next candidate is the one being tried or aggregated next.
C1_SuccessIffSomeStream ==
    \A k \in 1..Len(attempts) :
        LET a == attempts[k] IN
        /\ (Succeeded(a) # {}) <=>
               (k = Len(attempts) /\ pc = "completed" /\ results.download # Null)
        /\ (Succeeded(a) = {} /\ a.cand < Len(DOWNLOAD_TESTS)) =>
               /\ requests.download[a.cand + 1] = NUM_DOWNLOAD_STREAMS
               /\ IF k = Len(attempts)
                  THEN pc = "download" /\ cand = a.cand + 1 /\ results.download = Null
                  ELSE attempts[k + 1].cand = a.cand + 1

\* C1 witness: the first candidate failed as a whole and the second one was
\* judged successful with one stream failed and the others succeeded.
C1_Witness ==
    /\ pc = "completed"
    /\ Len(attempts) = 2
    /\ Succeeded(attempts[1]) = {}
    /\ Cardinality(Succeeded(attempts[2])) = NUM_DOWNLOAD_STREAMS - 1

\* C2: whenever testDownload aggregates a candidate attempt, every stream of
\* the attempt is fulfilled or rejected; while a stream of the current
\* candidate is still pending no aggregate of that candidate exists and no
\* speed has been returned, whatever the other streams have done.
C2_AggregateAfterAllSettled ==
    /\ \A k \in 1..Len(attempts) : Succeeded(attempts[k]) \cup Failed(attempts[k]) = Streams
    /\ (pc = "download" /\ \E i \in Streams : stream[i] \in {"fetch", "body"}) =>
           /\ Len(attempts) = cand - 1
           /\ results.download = Null
    /\ pc = "completed" =>
           /\ attempts # <<>>
           /\ LastAttempt.outcome = stream

\* C2 witness: one stream of the attempt has succeeded, another has failed, and
\* the attempt is still awaiting a third.
C2_Witness ==
    /\ pc = "download"
    /\ \E i, j, k \in Streams :
           /\ stream[i] = "fulfilled"
           /\ stream[j] = "rejected"
           /\ stream[k] = "body"
    /\ Len(attempts) = cand - 1

\* C3: when k >= 1 streams of the attempt succeeded, totalReceivedBytes is
\* k times the candidate's size, the returned speed is that total over the
\* elapsed time, and the candidate is the one the run completed on.
C3_BytesOfSuccessfulStreams ==
    pc = "completed" =>
        LET a == LastAttempt
            k == Cardinality(Succeeded(a))
            S == DOWNLOAD_TESTS[a.cand].size
        IN /\ k \in 1..NUM_DOWNLOAD_STREAMS
           /\ a.totalReceivedBytes = k * S
           /\ results.download = Div(k * S * 8 * 1000, a.end - a.start)
           /\ a.cand = cand
           /\ requests.download[cand] = NUM_DOWNLOAD_STREAMS

\* C3 witness: three of four streams succeeded over a measurable elapsed time.
C3_Witness ==
    /\ pc = "completed"
    /\ Cardinality(Succeeded(LastAttempt)) = 3
    /\ Cardinality(Failed(LastAttempt)) = 1
    /\ LastAttempt.end > LastAttempt.start
    /\ results.download = Num(3 * DOWNLOAD_TESTS[cand].size * 8000, LastAttempt.end - LastAttempt.start)

\* C4: candidates are attempted in list order, each at most once, with exactly
\* NUM_DOWNLOAD_STREAMS requests each, and no candidate after one that yielded
\* a successful stream receives a request.
C4_CandidatesInOrderOnce ==
    /\ \A k \in 1..Len(attempts) : attempts[k].cand = k
    /\ \A c \in Candidates :
           requests.download[c] = IF c <= cand THEN NUM_DOWNLOAD_STREAMS ELSE 0
    /\ \A k \in 1..Len(attempts) :
           Succeeded(attempts[k]) # {} =>
               \A c \in Candidates : c > attempts[k].cand => requests.download[c] = 0

\* C4 witness: the first candidate succeeded and the second got no request.
C4_Witness ==
    /\ pc = "completed"
    /\ cand = 1
    /\ Succeeded(LastAttempt) # {}
    /\ requests.download[1] = NUM_DOWNLOAD_STREAMS
    /\ requests.download[2] = 0

\* C5: once every stream of every candidate has failed, testDownload has
\* returned null and the run is Failed: the error is displayed and 100% was
\* never emitted.
C5_AllFailedIsFailed ==
    (/\ Len(attempts) = Len(DOWNLOAD_TESTS)
     /\ \A k \in 1..Len(attempts) : Succeeded(attempts[k]) = {}) =>
        /\ pc = "failed"
        /\ results.download = Null
        /\ elements.error = "block"
        /\ ~Emitted(1000)

\* C5 witness: every candidate failed although the latency probe had a value.
C5_Witness ==
    /\ Len(attempts) = Len(DOWNLOAD_TESTS)
    /\ \A k \in 1..Len(attempts) : Succeeded(attempts[k]) = {}
    /\ results.ping # Null
    /\ pc = "failed"

\* C6: when no latency attempt succeeded and a candidate yielded a successful
\* stream, the run is Completed with latency null and the computed download.
C6_LatencyAbsentStillCompletes ==
    (/\ pc \in {"download", "completed", "failed"}
     /\ pingOk.count = 0
     /\ attempts # <<>>
     /\ Succeeded(LastAttempt) # {}) =>
        /\ pc = "completed"
        /\ results.ping = Null
        /\ results.download =
               Div(LastAttempt.totalReceivedBytes * 8 * 1000, LastAttempt.end - LastAttempt.start)
        /\ results.download # Null
        /\ Emitted(1000)

\* C6 witness: all latency attempts failed, the first candidate failed as a
\* whole and the second candidate succeeded.
C6_Witness ==
    /\ pingOk.count = 0
    /\ pingI = PING_ATTEMPTS
    /\ Len(attempts) = 2
    /\ Succeeded(attempts[1]) = {}
    /\ Succeeded(attempts[2]) # {}
    /\ pc = "completed"
    /\ results.ping = Null

\* C7: the pings array holds exactly the elapsed times of the attempts whose
\* fetch resolved, and testPing returns null when there is none and otherwise
\* their sum divided by their number.
C7_MeanOfSuccessfulPings ==
    /\ Len(pings) = pingOk.count
    /\ SumSeq(pings) = pingOk.sum
    /\ pc \in {"download", "completed", "failed"} =>
           /\ pingI = PING_ATTEMPTS
           /\ results.ping = IF pingOk.count = 0 THEN Null
                             ELSE Num(pingOk.sum, pingOk.count)

\* C7 witness: one attempt failed, two succeeded with a nonzero total.
C7_Witness ==
    /\ pc = "download"
    /\ pingOk.count = 2
    /\ pingOk.sum = 2
    /\ results.ping = Num(2, 2)

\* C8: the progress values a run emits never decrease, and 100% is emitted
\* only by a run that is Completed.
C8_ProgressMonotone ==
    /\ \A j \in 1..Len(emitted) : j > 1 => emitted[j - 1] <= emitted[j]
    /\ Emitted(1000) => pc = "completed"

\* C8 witness: a completed run that failed over and then saw streams complete.
C8_Witness ==
    /\ pc = "completed"
    /\ Len(attempts) = 2
    /\ Cardinality(Succeeded(attempts[2])) = 2
    /\ emitted = <<0, 100, 200, 325, 450, 1000>>

\* C9 (as claimed): after all streams of an attempt have settled, the
\* completed-stream counter equals NUM_DOWNLOAD_STREAMS.
C9_CounterCountsEverySettledStream ==
    \A k \in 1..Len(attempts) :
        attempts[k].completedStreams = NUM_DOWNLOAD_STREAMS

\* C10 (as claimed): while a run is in progress the start button is disabled.
C10_StartDisabledWhileRunning ==
    pc \in {"ping", "download"} => elements.startButtonDisabled

\* C11 (as claimed): once the offline event has fired while a run is in
\* progress, the run does not report Completed.  showLoading hides the error
\* display and, before the run returns, only the offline listener shows it, so
\* a run in progress with the error displayed is a run that was signalled.
C11_OfflineRunNeverCompletes ==
    [][(pc \in {"ping", "download"} /\ elements.error = "block") =>
           (pc' # "completed" /\ ~(\E j \in 1..Len(emitted') : emitted'[j] = 1000))]_vars

\* C12 (as claimed): an attempt with a successful stream and zero elapsed time
\* yields no speed: the run is not completed on it and no returned speed is the
\* result of a division by zero.
C12_NoSpeedFromZeroElapsed ==
    /\ \A k \in 1..Len(attempts) :
           (Succeeded(attempts[k]) # {} /\ attempts[k].end = attempts[k].start) =>
               ~(k = Len(attempts) /\ pc = "completed")
    /\ results.download \notin {Infinity, NaN}

\* C13: a step in which stream i's response has a non-success status is a step
\* a transport error of stream i could have taken: the stream ends rejected,
\* the counter and the progress are untouched, and either the attempt keeps
\* waiting for the other streams, unchanged, or (they had all settled) it is
\* aggregated with their outcomes and with the bytes of the fulfilled ones only.
C13_BadStatusIsFailure ==
    [][\A i \in Streams : StreamBadStatus(i) =>
          /\ StreamFetchError(i)
          /\ IF Len(attempts') = Len(attempts)
             THEN /\ pc' = "download"
                  /\ stream'[i] = "rejected"
                  /\ \A j \in Streams \ {i} :
                         stream'[j] = stream[j] /\ stream[j] \in {"fetch", "body", "fulfilled", "rejected"}
                  /\ \E j \in Streams \ {i} : stream[j] \in {"fetch", "body"}
                  /\ completedStreams' = completedStreams
                  /\ emitted' = emitted
             ELSE LET a == attempts'[Len(attempts')]
                      others == {j \in Streams \ {i} : stream[j] = "fulfilled"}
                  IN /\ a.outcome[i] = "rejected"
                     /\ \A j \in Streams \ {i} :
                            a.outcome[j] = stream[j] /\ stream[j] \in {"fulfilled", "rejected"}
                     /\ a.totalReceivedBytes = Cardinality(others) * DOWNLOAD_TESTS[cand].size
                     /\ a.completedStreams = Cardinality(others)
                     /\ (others # {}) => pc' = "completed"
      ]_vars

\* C13 witness: the attempt on the first candidate was aggregated with stream 0
\* rejected at its fetch (by a non-success status or, indistinguishably, a
\* transport error) and the three other streams counted.
C13_Witness ==
    /\ pc = "completed"
    /\ cand = 1
    /\ stream[0] = "rejected"
    /\ \A j \in Streams \ {0} : stream[j] = "fulfilled"
    /\ LastAttempt.totalReceivedBytes = 3 * DOWNLOAD_TESTS[1].size
    /\ completedStreams = 3

\* C14: a latency attempt answered with a non-success status is a failed
\* attempt: nothing is pushed for it, and when it is the last attempt and no
\* earlier attempt succeeded, the latency recorded is absent.
C14_BadStatusPingIsFailedAttempt ==
    [][PingResponse(FALSE) =>
          /\ pings' = pings
          /\ (pings = <<>> /\ pc' = "download") => results'.ping = Null
      ]_vars

\* C15: the phases of a run do not interleave. While the latency phase runs
\* no download stream exists and no download request has been issued; the
\* phase ends with the last attempt, whatever the attempts gave; and from the
\* throughput phase on, the latency requests of the run stay at the number
\* issued by the latency phase, all of them settled.
C15_LatencyThenThroughput ==
    /\ pc = "idle" => requests = NoRequests
    /\ pc = "ping" =>
           /\ stream = NoStreams
           /\ cand = 0
           /\ \A c \in Candidates : requests.download[c] = 0
           /\ pingI < PING_ATTEMPTS
    /\ pc \in {"download", "completed", "failed"} =>
           /\ pingI = PING_ATTEMPTS
           /\ requests.ping = PING_ATTEMPTS
           /\ requests.download[1] = NUM_DOWNLOAD_STREAMS
           /\ results.ping = PingResult(pings)
    /\ (\E c \in Candidates : requests.download[c] > 0) => pingI = PING_ATTEMPTS

\* C15 witness: every latency attempt failed and the first candidate's streams
\* have just been launched.
C15_Witness ==
    /\ pc = "download"
    /\ pings = <<>>
    /\ results.ping = Null
    /\ requests.ping = PING_ATTEMPTS
    /\ cand = 1
    /\ stream = Launched

\* C16: the start time of a later candidate's attempt is taken when that
\* attempt begins, which is when the previous candidate's attempt ended, and
\* the speed of a run completed by the later candidate is computed over the
\* time elapsed since that start: the failed candidate's time is left out.
C16_FreshStartPerCandidate ==
    /\ \A k \in 2..Len(attempts) :
           /\ attempts[k].start = attempts[k - 1].end
           /\ Succeeded(attempts[k - 1]) = {}
    /\ (pc = "download" /\ cand > 1) => dlStart = attempts[cand - 1].end
    /\ (pc = "completed" /\ Len(attempts) > 1) =>
           results.download =
               SpeedMbps(LastAttempt.totalReceivedBytes,
                         LastAttempt.end - attempts[Len(attempts) - 1].end)

\* C16 witness: the first candidate failed entirely after some time, and the
\* second candidate completed the run after some more time.
C16_Witness ==
    /\ pc = "completed"
    /\ Len(attempts) = 2
    /\ attempts[1].end > attempts[1].start
    /\ attempts[2].end > attempts[2].start
    /\ results.download \notin {Null, Infinity, NaN}

\* C17: no run issues an upload request, and the upload field of the result
\* record is absent throughout, so in every terminal result.
C17_UploadAlwaysAbsent ==
    /\ requests.upload = 0
    /\ results.upload = Null

\* C18: the latency attempts are issued one after another and all of them are
\* issued: while the latency phase runs exactly one request is in flight, the
\* one after the pingI attempts that have settled; once the phase is over none
\* is in flight and PING_ATTEMPTS have been issued, however many of them failed.
C18_PingsSequentialAndAllIssued ==
    /\ pingI <= PING_ATTEMPTS
    /\ Len(pings) <= pingI
    /\ pc = "ping" => requests.ping = pingI + 1
    /\ pc \in {"download", "upload", "completed", "failed"} =>
           requests.ping = pingI /\ requests.ping = PING_ATTEMPTS

\* C18 witness: the latency phase is over, two of its attempts were rejected
\* and all the attempts were issued.
C18_Witness ==
    /\ pc = "download"
    /\ stream = Launched
    /\ Len(pings) = 1
    /\ pingOk.count = 1
    /\ requests.ping = PING_ATTEMPTS

\* C19: no update of completedStreams is lost. Whatever the order in which the
\* streams of a candidate's attempt complete, the counter equals the number of
\* streams that have fulfilled, and the progress values the attempt has passed
\* to its callback are those of 1/N, 2/N, ..., completedStreams/N in this
\* order, each once.
C19_NoLostUpdate ==
    pc \in {"download", "completed", "failed"} =>
        /\ completedStreams = Cardinality({i \in Streams : stream[i] = "fulfilled"})
        /\ Len(emitted) = 3 + completedStreams + (IF pc = "completed" THEN 1 ELSE 0)
        /\ \A j \in 1..completedStreams :
               /\ emitted[3 + j] = DownloadProgress((j * 1000) \div NUM_DOWNLOAD_STREAMS)
               /\ j > 1 => emitted[3 + j] > emitted[3 + j - 1]

\* C19 witness: two streams of an attempt have completed, one has failed and
\* one is still in flight; the callback has been passed 1/4 and then 2/4.
C19_Witness ==
    /\ pc = "download"
    /\ completedStreams = 2
    /\ \E i \in Streams : stream[i] = "rejected"
    /\ \E i \in Streams : stream[i] \in {"fetch", "body"}
    /\ emitted = << 0, 100, 200, 325, 450 >>

\* C20: the step that begins a run hides the result and error displays, sets
\* the progress to 0 before anything else, and starts from a result record
\* whose fields are all absent and from empty probe state; and the result of
\* a step that ends a run is computed from that run's own attempts alone.
C20_StartResetsPreviousRun ==
    [][/\ (pc # "ping" /\ pc' = "ping") =>
              /\ elements'.results = "none"
              /\ elements'.error = "none"
              /\ elements'.loading = "block"
              /\ emitted'[1] = 0
              /\ results' = NoResults
              /\ pings' = <<>>
              /\ pingI' = 0
              /\ attempts' = <<>>
              /\ completedStreams' = 0
       /\ (pc \notin {"completed", "failed"} /\ pc' \in {"completed", "failed"}) =>
              LET a == attempts'[Len(attempts')]
              IN /\ results'.ping = PingResult(pings')
                 /\ results'.upload = Null
                 /\ results'.download =
                        IF pc' = "failed" THEN Null
                        ELSE SpeedMbps(a.totalReceivedBytes, a.end - a.start)
      ]_vars

\* C20 witness: a run has just begun after a run that failed: the message of
\* the failed run is still in the error element, which is hidden.
C20_Witness ==
    /\ pc = "ping"
    /\ pingI = 0
    /\ elements.errorText = "Download test failed"
    /\ elements.error = "none"
    /\ elements.progress = 100
    /\ results = NoResults

\* C21 (as claimed): in every reachable state of the page the error display
\* and the results display are not both visible.
C21_ErrorAndResultsExclusive ==
    ~(elements.error = "block" /\ elements.results = "block")

\* C22: when every request settles and the timer fires, a run in progress
\* eventually reaches Completed or Failed, and from there the start button
\* eventually is enabled again.
C22_RunEndsAndButtonReenabled ==
    /\ (pc \in {"ping", "download"}) ~> (pc \in {"completed", "failed"})
    /\ (pc \in {"completed", "failed"}) ~> ~elements.startButtonDisabled

\* C22 witness: a run has completed, its timer has fired and shown the
\* results, and the start button is enabled with no timer pending.
C22_Witness ==
    /\ pc = "completed"
    /\ timers = 0
    /\ elements.results = "block"
    /\ elements.error = "none"
    /\ ~elements.startButtonDisabled

====
